---- MODULE Spec2Model ----
(***************************************************************************)
(* The PINF layer of the CITP codec (src/src/protocol/pinf.rs).            *)
(*                                                                         *)
(* A byte is a number in 0..255, a byte stream is a sequence of bytes, and *)
(* a reader is the part of the stream not yet consumed.  Every read        *)
(* returns a result record: the value and the remaining stream, or the     *)
(* error it stopped on.                                                    *)
(*                                                                         *)
(* pinf.rs builds on the `protocol` module (protocol::Header, the CString  *)
(* and integer readers and writers), which is not among the source files.  *)
(* Those parts are modelled from the specification text; the one place the *)
(* text and the source disagree, the length of the base header, follows    *)
(* the packet of test_ploc_message_read_bytes (pinf.rs:184-201), in which  *)
(* four bytes sit between total_size and the layer tag.                    *)
(***************************************************************************)
EXTENDS Integers, Sequences, FiniteSets, TLC

VARIABLES pc, msg, sent, buf, wire, hdr, res, via, out

vars == <<pc, msg, sent, buf, wire, hdr, res, via, out>>

\* ------------------------------------------------------------------ bounds

\* Longest string content (without the terminator) of a payload field.
MaxLen == 2

\* Most bytes a datagram carries after the encoded packet.
MaxTrail == 1

\* Bytes a string content is made of (no zero byte: a CString holds none);
\* the codec copies content bytes unchanged, so contents differ by length.
Chars == {65}

\* listening_tcp_port values: not listening, two whose bytes differ.
Ports == {0, 256, 64074}

\* Bytes that may follow a packet in the buffer.
TrailBytes == {0, 65}

RECURSIVE SeqsUpTo(_)
SeqsUpTo(n) ==
  IF n = 0 THEN {<<>>}
  ELSE LET shorter == SeqsUpTo(n - 1)
       IN  shorter \cup {Append(s, c) : s \in {t \in shorter : Len(t) = n - 1}, c \in Chars}

CStrings == SeqsUpTo(MaxLen)

\* ------------------------------------------------------- result of a read

Ok(v, rest) == [ok |-> TRUE, err |-> "", val |-> v, rest |-> rest]

Err(e) == [ok |-> FALSE, err |-> e, val |-> <<>>, rest |-> <<>>]

Drop(s, n) == SubSeq(s, n + 1, Len(s))

\* ---------------------------------------------------------- tag constants

Magic == <<67, 73, 84, 80>>

HeaderContentType == <<80, 73, 78, 70>>

PNamContentType == <<80, 78, 97, 109>>

PLocContentType == <<80, 76, 111, 99>>

\* Tags no message of the layer carries.
OtherLayer == <<77, 83, 69, 88>>

OtherTag == <<88, 88, 88, 88>>

OtherMagic == <<88, 73, 84, 80>>

\* ------------------------------------------------------- primitive codec

WriteU16(n) == <<n % 256, (n \div 256) % 256>>

WriteU32(n) ==
  <<n % 256, (n \div 256) % 256, (n \div 65536) % 256, (n \div 16777216) % 256>>

ReadU16(s) ==
  IF Len(s) < 2 THEN Err("UnexpectedEof")
  ELSE Ok(s[1] + 256 * s[2], Drop(s, 2))

ReadU32(s) ==
  IF Len(s) < 4 THEN Err("UnexpectedEof")
  ELSE Ok(s[1] + 256 * s[2] + 65536 * s[3] + 16777216 * s[4], Drop(s, 4))

\* The number a four-character tag is when read as a little-endian u32.
TagU32(t) == ReadU32(t).val

WriteCString(c) == c \o <<0>>

ReadCString(s) ==
  IF \A i \in 1..Len(s) : s[i] # 0 THEN Err("UnterminatedString")
  ELSE LET z == CHOOSE i \in 1..Len(s) : s[i] = 0 /\ \A j \in 1..(i - 1) : s[j] # 0
       IN  Ok(SubSeq(s, 1, z - 1), Drop(s, z))

SizeCString(c) == Len(c) + 1

\* ------------------------------------------------------------ base header

CitpHeader(magic, size, layer) ==
  [magic |-> magic, version |-> 1, total_size |-> size, part |-> 1, layer_tag |-> layer]

CitpHeaderWrite(h) ==
  h.magic \o WriteU32(h.version) \o WriteU32(h.total_size) \o WriteU32(h.part) \o h.layer_tag

CitpHeaderRead(s) ==
  IF Len(s) < 4 THEN Err("UnexpectedEof")
  ELSE IF SubSeq(s, 1, 4) # Magic THEN Err("BadMagic")
  ELSE LET version == ReadU32(Drop(s, 4)) IN
       IF ~version.ok THEN version
       ELSE LET size == ReadU32(version.rest) IN
       IF ~size.ok THEN size
       ELSE LET part == ReadU32(size.rest) IN
       IF ~part.ok THEN part
       ELSE IF Len(part.rest) < 4 THEN Err("UnexpectedEof")
       ELSE Ok([magic |-> SubSeq(s, 1, 4), version |-> version.val,
                total_size |-> size.val, part |-> part.val,
                layer_tag |-> SubSeq(part.rest, 1, 4)],
               Drop(part.rest, 4))

\* ------------------------------------------------------------- PINF layer

\* The type parameter T of Message<T>: a PLoc has a kind field, a PNam none.
IsPLoc(p) == "kind" \in DOMAIN p


\* HeaderWrite with the two writes exchanged.
HeaderWrite_TagFirst(h) == WriteU32(h.content_type) \o CitpHeaderWrite(h.citp_header)

HeaderWrite(h) == CitpHeaderWrite(h.citp_header) \o WriteU32(h.content_type)

PNamWrite(p) == WriteCString(p.name)


\* PLocWrite with the port written by write_u8.
PLocWrite_U8Port(p) ==
  <<p.listening_tcp_port % 256>> \o WriteCString(p.kind)
    \o WriteCString(p.name) \o WriteCString(p.state)

PLocWrite(p) ==
  WriteU16(p.listening_tcp_port) \o WriteCString(p.kind)
    \o WriteCString(p.name) \o WriteCString(p.state)

PayloadWrite(p) == IF IsPLoc(p) THEN PLocWrite(p) ELSE PNamWrite(p)

MessageWrite(m) == HeaderWrite(m.pinf_header) \o PayloadWrite(m.message)


\* HeaderRead with the two reads exchanged.
HeaderRead_TagFirst(s) ==
  LET tag == ReadU32(s) IN
  IF ~tag.ok THEN tag
  ELSE LET citp == CitpHeaderRead(tag.rest) IN
       IF ~citp.ok THEN citp
       ELSE Ok([citp_header |-> citp.val, content_type |-> tag.val], citp.rest)

\* HeaderRead with content_type read by read_u16.
HeaderRead_U16Tag(s) ==
  LET citp == CitpHeaderRead(s) IN
  IF ~citp.ok THEN citp
  ELSE LET tag == ReadU16(citp.rest) IN
       IF ~tag.ok THEN tag
       ELSE Ok([citp_header |-> citp.val, content_type |-> tag.val], tag.rest)

HeaderRead(s) ==
  LET citp == CitpHeaderRead(s) IN
  IF ~citp.ok THEN citp
  ELSE LET tag == ReadU32(citp.rest) IN
       IF ~tag.ok THEN tag
       ELSE Ok([citp_header |-> citp.val, content_type |-> tag.val], tag.rest)

PNamRead(s) ==
  LET name == ReadCString(s) IN
  IF ~name.ok THEN name
  ELSE Ok([name |-> name.val], name.rest)


\* PLocRead with the reads of kind and name exchanged.
PLocRead_NameFirst(s) ==
  LET port == ReadU16(s) IN
  IF ~port.ok THEN port
  ELSE LET name == ReadCString(port.rest) IN
  IF ~name.ok THEN name
  ELSE LET kind == ReadCString(name.rest) IN
  IF ~kind.ok THEN kind
  ELSE LET state == ReadCString(kind.rest) IN
  IF ~state.ok THEN state
  ELSE Ok([listening_tcp_port |-> port.val, kind |-> kind.val,
           name |-> name.val, state |-> state.val],
          state.rest)

\* PLocRead with the port read by read_u8.
PLocRead_U8Port(s) ==
  IF Len(s) < 1 THEN Err("UnexpectedEof")
  ELSE LET kind == ReadCString(Drop(s, 1)) IN
  IF ~kind.ok THEN kind
  ELSE LET name == ReadCString(kind.rest) IN
  IF ~name.ok THEN name
  ELSE LET state == ReadCString(name.rest) IN
  IF ~state.ok THEN state
  ELSE Ok([listening_tcp_port |-> s[1], kind |-> kind.val,
           name |-> name.val, state |-> state.val],
          state.rest)

\* PLocRead that leaves state unread.
PLocRead_NoState(s) ==
  LET port == ReadU16(s) IN
  IF ~port.ok THEN port
  ELSE LET kind == ReadCString(port.rest) IN
  IF ~kind.ok THEN kind
  ELSE LET name == ReadCString(kind.rest) IN
  IF ~name.ok THEN name
  ELSE Ok([listening_tcp_port |-> port.val, kind |-> kind.val,
           name |-> name.val, state |-> <<>>],
          name.rest)

PLocRead(s) ==
  LET port == ReadU16(s) IN
  IF ~port.ok THEN port
  ELSE LET kind == ReadCString(port.rest) IN
  IF ~kind.ok THEN kind
  ELSE LET name == ReadCString(kind.rest) IN
  IF ~name.ok THEN name
  ELSE LET state == ReadCString(name.rest) IN
  IF ~state.ok THEN state
  ELSE Ok([listening_tcp_port |-> port.val, kind |-> kind.val,
           name |-> name.val, state |-> state.val],
          state.rest)

MessagePLocRead(s) ==
  LET h == HeaderRead(s) IN
  IF ~h.ok THEN h
  ELSE LET p == PLocRead(h.rest) IN
       IF ~p.ok THEN p
       ELSE Ok([pinf_header |-> h.val, message |-> p.val], p.rest)

PNamSize(p) == SizeCString(p.name)


\* PLocSize without the state field.
PLocSize_NoState(p) == 2 + SizeCString(p.kind) + SizeCString(p.name)

PLocSize(p) == 2 + SizeCString(p.kind) + SizeCString(p.name) + SizeCString(p.state)

PayloadSize(p) == IF IsPLoc(p) THEN PLocSize(p) ELSE PNamSize(p)

\* The packet of test_ploc_message_read_bytes.
ploc_packet ==
  <<67, 73, 84, 80, 1, 0, 0, 0, 96, 0, 0, 0, 1, 0, 0, 0, 80, 73, 78, 70,
    80, 76, 111, 99, 74, 250, 86, 105, 115, 117, 97, 108, 105, 122, 101, 114, 0,
    67, 97, 112, 116, 117, 114, 101, 32, 64, 32, 72, 117, 103, 111, 115, 45,
    77, 97, 99, 66, 111, 111, 107, 45, 80, 114, 111, 46, 108, 111, 99, 97, 108,
    32, 40, 49, 57, 50, 46, 49, 54, 56, 46, 49, 54, 56, 46, 56, 48, 41, 0,
    82, 117, 110, 110, 105, 110, 103, 0>>

\* ------------------------------------------------------------- the caller

\* How the caller fills the header of the message it builds: as the layer
\* prescribes, or with one field off (every field of Header is public).
HeaderKinds == {"good", "badmagic", "wronglayer", "othertag", "swaptag", "badsize"}

OwnTag(p) == IF IsPLoc(p) THEN PLocContentType ELSE PNamContentType

SwapTag(p) == IF IsPLoc(p) THEN PNamContentType ELSE PLocContentType

\* Bytes of the header chain in front of the payload.
Overhead(p) == Len(HeaderWrite([citp_header |-> CitpHeader(Magic, 0, HeaderContentType),
                                content_type |-> TagU32(OwnTag(p))]))

MakeMessage(p, hk) ==
  [pinf_header |->
     [citp_header |->
        CitpHeader(IF hk = "badmagic" THEN OtherMagic ELSE Magic,
                   IF hk = "badsize" THEN Overhead(p) + PayloadSize(p) + 1
                                     ELSE Overhead(p) + PayloadSize(p),
                   IF hk = "wronglayer" THEN OtherLayer ELSE HeaderContentType),
      content_type |->
        TagU32(CASE hk = "othertag" -> OtherTag
                 [] hk = "swaptag"  -> SwapTag(p)
                 [] OTHER           -> OwnTag(p))],
   message |-> p]

NoMsg == [none |-> TRUE]

NoRes == Err("none")

\* ---------------------------------------------------------------- actions

Init ==
  /\ pc = "idle"
  /\ msg = NoMsg
  /\ sent = <<>>
  /\ buf = <<>>
  /\ wire = "none"
  /\ hdr = NoRes
  /\ res = NoRes
  /\ via = "none"
  /\ out = <<>>

BuildPLoc(port, kind, name, state, hk) ==
  /\ pc = "idle"
  /\ msg' = MakeMessage([listening_tcp_port |-> port, kind |-> kind,
                         name |-> name, state |-> state], hk)
  /\ pc' = "built"
  /\ UNCHANGED <<sent, buf, wire, hdr, res, via, out>>

BuildPNam(name, hk) ==
  /\ pc = "idle"
  /\ msg' = MakeMessage([name |-> name], hk)
  /\ pc' = "built"
  /\ UNCHANGED <<sent, buf, wire, hdr, res, via, out>>

\* Message<T>::write_to_bytes into an empty buffer.
Encode ==
  /\ pc = "built"
  /\ sent' = MessageWrite(msg)
  /\ buf' = MessageWrite(msg)
  /\ wire' = "valid"
  /\ pc' = "wire"
  /\ UNCHANGED <<msg, hdr, res, via, out>>

\* The buffer of the test.
LoadTestPacket ==
  /\ pc = "idle"
  /\ sent' = ploc_packet
  /\ buf' = ploc_packet
  /\ wire' = "literal"
  /\ pc' = "wire"
  /\ UNCHANGED <<msg, hdr, res, via, out>>

\* The decoder is handed a proper prefix of the packet.
Truncate(n) ==
  /\ pc = "wire"
  /\ wire = "valid"
  /\ n < Len(buf)
  /\ buf' = SubSeq(buf, 1, n)
  /\ wire' = "cut"
  /\ UNCHANGED <<pc, msg, sent, hdr, res, via, out>>

\* The decoder is handed the packet with a byte after it.
Pad(b) ==
  /\ pc = "wire"
  /\ wire \in {"valid", "padded"}
  /\ Len(buf) - Len(sent) < MaxTrail
  /\ buf' = Append(buf, b)
  /\ wire' = "padded"
  /\ UNCHANGED <<pc, msg, sent, hdr, res, via, out>>

\* buffer.as_slice().read_bytes::<Message<PLoc>>()
ReadMessagePLoc ==
  /\ pc = "wire"
  /\ res' = MessagePLocRead(buf)
  /\ via' = "MessagePLoc"
  /\ pc' = "done"
  /\ UNCHANGED <<msg, sent, buf, wire, hdr, out>>

\* read_bytes::<pinf::Header>() on the buffer; the reader stays at the payload.
ReadHeader ==
  /\ pc = "wire"
  /\ hdr' = HeaderRead(buf)
  /\ IF hdr'.ok
       THEN pc' = "hdr" /\ UNCHANGED <<res, via>>
       ELSE pc' = "done" /\ res' = hdr' /\ via' = "Header"
  /\ UNCHANGED <<msg, sent, buf, wire, out>>

\* read_bytes::<PLoc>() on the reader left by ReadHeader.
ReadPLoc ==
  /\ pc = "hdr"
  /\ res' = PLocRead(hdr.rest)
  /\ via' = "PLoc"
  /\ pc' = "done"
  /\ UNCHANGED <<msg, sent, buf, wire, hdr, out>>

\* read_bytes::<PNam>() on the reader left by ReadHeader.
ReadPNam ==
  /\ pc = "hdr"
  /\ res' = PNamRead(hdr.rest)
  /\ via' = "PNam"
  /\ pc' = "done"
  /\ UNCHANGED <<msg, sent, buf, wire, hdr, out>>

\* The message a successful decode produced.
Decoded ==
  IF via = "MessagePLoc" THEN res.val
  ELSE [pinf_header |-> hdr.val, message |-> res.val]

\* The decoded message is written back with Message<T>::write_to_bytes.
ReEncode ==
  /\ pc = "done"
  /\ res.ok
  /\ out' = MessageWrite(Decoded)
  /\ pc' = "reenc"
  /\ UNCHANGED <<msg, sent, buf, wire, hdr, res, via>>

Next ==
  \/ \E port \in Ports, kind \in CStrings, name \in CStrings, state \in CStrings,
        hk \in HeaderKinds : BuildPLoc(port, kind, name, state, hk)
  \/ \E name \in CStrings, hk \in HeaderKinds : BuildPNam(name, hk)
  \/ Encode
  \/ LoadTestPacket
  \/ \E n \in 0..(Len(buf) - 1) : Truncate(n)
  \/ \E b \in TrailBytes : Pad(b)
  \/ ReadMessagePLoc
  \/ ReadHeader
  \/ ReadPLoc
  \/ ReadPNam
  \/ ReEncode

Spec == Init /\ [][Next]_vars

\* ------------------------------------------------------------- properties

\* A message was built and encoded (the buffer is not the test's packet).
HasMsg == wire \in {"valid", "cut", "padded"}

\* A read of a message or of a payload has returned.
Finished == pc \in {"done", "reenc"}

\* The read that returned is the one of the payload type that was encoded.
OwnRead ==
  \/ via = "MessagePLoc" /\ IsPLoc(msg.message)
  \/ via = "PLoc" /\ IsPLoc(msg.message)
  \/ via = "PNam" /\ ~IsPLoc(msg.message)

Visualiser == <<86, 105, 115, 117, 97, 108, 105, 115, 101, 114>>

Visualizer == <<86, 105, 115, 117, 97, 108, 105, 122, 101, 114>>

CaptureName ==
  <<67, 97, 112, 116, 117, 114, 101, 32, 64, 32, 72, 117, 103, 111, 115, 45,
    77, 97, 99, 66, 111, 111, 107, 45, 80, 114, 111, 46, 108, 111, 99, 97, 108,
    32, 40, 49, 57, 50, 46, 49, 54, 56, 46, 49, 54, 56, 46, 56, 48, 41>>

Running == <<82, 117, 110, 110, 105, 110, 103>>

\* C1: size_bytes of every PNam and PLoc value equals the number of bytes its
\* write_to_bytes produces: 2 + (len(kind)+1) + (len(name)+1) + (len(state)+1)
\* for a PLoc, len(name)+1 for a PNam; the encoded packet is that much longer
\* than its header.
C1_SizeInvariant ==
  HasMsg =>
    LET p == msg.message IN
    /\ PayloadSize(p) = Len(PayloadWrite(p))
    /\ Len(sent) = Len(HeaderWrite(msg.pinf_header)) + PayloadSize(p)
    /\ IsPLoc(p) => PLocSize(p) = 2 + (Len(p.kind) + 1) + (Len(p.name) + 1) + (Len(p.state) + 1)
    /\ ~IsPLoc(p) => PNamSize(p) = Len(p.name) + 1

C1_Witness ==
  /\ pc = "wire" /\ wire = "valid"
  /\ IsPLoc(msg.message)
  /\ Len(msg.message.kind) = 2 /\ Len(msg.message.name) = 1 /\ Len(msg.message.state) = 0

\* C2: reading back the bytes written for a PNam or PLoc value succeeds and
\* yields the same value, every field in its place; the payload bytes are
\* port, kind, name, state in that order; nothing is left unread.
C2_RoundTrip ==
  /\ (wire = "valid" /\ IsPLoc(msg.message)) =>
       LET p == msg.message IN
       Drop(sent, 24) = <<p.listening_tcp_port % 256, p.listening_tcp_port \div 256>>
                          \o p.kind \o <<0>> \o p.name \o <<0>> \o p.state \o <<0>>
  /\ (wire = "valid" /\ ~IsPLoc(msg.message)) =>
       Drop(sent, 24) = msg.message.name \o <<0>>
  /\ (Finished /\ wire = "valid" /\ via \in {"PLoc", "PNam"} /\ OwnRead) =>
       res.ok /\ res.val = msg.message /\ res.rest = <<>>
  /\ (Finished /\ wire = "valid" /\ via = "MessagePLoc" /\ OwnRead
        /\ msg.pinf_header.citp_header.magic = Magic) =>
       res.ok /\ res.val = msg /\ res.rest = <<>>

C2_Witness ==
  /\ pc = "done" /\ wire = "valid" /\ via = "PLoc" /\ res.ok
  /\ res.val.listening_tcp_port = 64074
  /\ Len(res.val.kind) = 1 /\ Len(res.val.name) = 2 /\ Len(res.val.state) = 0
  /\ res.val = msg.message

Scenario(kind) ==
  (wire = "literal" /\ Finished /\ via = "MessagePLoc") =>
    /\ res.ok
    /\ WriteU32(res.val.pinf_header.content_type) = PLocContentType
    /\ res.val.message.listening_tcp_port = 64074
    /\ res.val.message.kind = kind
    /\ res.val.message.name = CaptureName
    /\ res.val.message.state = Running
    /\ pc = "reenc" => out = ploc_packet /\ Len(out) = 96

Layout(layer) ==
  /\ wire = "valid" =>
       LET h == msg.pinf_header IN
       /\ SubSeq(sent, 1, 4) = h.citp_header.magic
       /\ SubSeq(sent, 5, 8) = WriteU32(h.citp_header.version)
       /\ SubSeq(sent, 9, 12) = WriteU32(h.citp_header.total_size)
       /\ SubSeq(sent, layer + 1, layer + 4) = h.citp_header.layer_tag
       /\ SubSeq(sent, layer + 5, layer + 8) = WriteU32(h.content_type)
       /\ Drop(sent, layer + 8) = PayloadWrite(msg.message)
  /\ (pc = "hdr" \/ (Finished /\ via \in {"PLoc", "PNam"})) =>
       /\ hdr.val.citp_header.magic = SubSeq(buf, 1, 4)
       /\ WriteU32(hdr.val.citp_header.version) = SubSeq(buf, 5, 8)
       /\ WriteU32(hdr.val.citp_header.total_size) = SubSeq(buf, 9, 12)
       /\ hdr.val.citp_header.layer_tag = SubSeq(buf, layer + 1, layer + 4)
       /\ WriteU32(hdr.val.content_type) = SubSeq(buf, layer + 5, layer + 8)
       /\ hdr.rest = Drop(buf, layer + 8)
  /\ (Finished /\ via = "MessagePLoc" /\ res.ok) =>
       /\ res.val.pinf_header.citp_header.layer_tag = SubSeq(buf, layer + 1, layer + 4)
       /\ WriteU32(res.val.pinf_header.content_type) = SubSeq(buf, layer + 5, layer + 8)

\* C5 as stated: the base header is 16 bytes, magic at offset 0, version at 4,
\* total_size at 8, the layer tag at 12; the message tag is at 16 and the
\* payload starts at 20; decode reads the fields from the same offsets.
C5_Original == Layout(12)

\* C5 amended: the base header is 20 bytes, magic at offset 0, version at 4,
\* total_size at 8, four more bytes at 12 and the layer tag at 16; the message
\* tag is at 20 and the payload starts at 24, without padding; decode reads
\* the fields from the same offsets.
C5_Layout ==
  /\ Layout(16)
  /\ wire = "valid" => SubSeq(sent, 13, 16) = WriteU32(msg.pinf_header.citp_header.part)

C5_Witness ==
  /\ pc = "hdr" /\ wire = "valid"
  /\ SubSeq(buf, 1, 4) = Magic
  /\ SubSeq(buf, 17, 20) = HeaderContentType
  /\ SubSeq(buf, 21, 24) = PNamContentType
  /\ hdr.val.content_type = TagU32(PNamContentType)
  /\ hdr.rest = <<65, 0>>

\* C6: a decode of a buffer whose first four bytes are not "CITP" fails with
\* BadMagic and yields neither a header nor a message, whatever follows.
C6_MagicRejection ==
  (pc \in {"hdr", "done", "reenc"} /\ Len(buf) >= 4 /\ SubSeq(buf, 1, 4) # Magic) =>
    /\ pc = "done"
    /\ ~res.ok
    /\ res.err = "BadMagic"
    /\ via = "Header" => ~hdr.ok

C6_Witness ==
  /\ pc = "done" /\ via = "MessagePLoc"
  /\ wire = "valid" /\ IsPLoc(msg.message)
  /\ SubSeq(buf, 1, 4) = OtherMagic
  /\ res.err = "BadMagic"

\* C7: a decode of a packet with a whole, well-formed base header, layer tag
\* "PINF" and a message tag other than "PNam" and "PLoc" fails with
\* UnknownMessageTag, and a packet tagged "PNam" is never decoded as a PLoc.
C7_UnknownTag ==
  (Finished /\ via = "MessagePLoc" /\ Len(buf) >= 24
     /\ SubSeq(buf, 1, 4) = Magic /\ SubSeq(buf, 17, 20) = HeaderContentType) =>
    /\ SubSeq(buf, 21, 24) \notin {PNamContentType, PLocContentType}
         => ~res.ok /\ res.err = "UnknownMessageTag"
    /\ SubSeq(buf, 21, 24) = PNamContentType => ~res.ok

\* C8: a decode of a packet whose base header has the magic and a layer tag
\* other than "PINF" fails with WrongLayer; no header is returned and no
\* payload is read.
C8_WrongLayer ==
  (pc \in {"hdr", "done", "reenc"} /\ Len(buf) >= 20
     /\ SubSeq(buf, 1, 4) = Magic /\ SubSeq(buf, 17, 20) # HeaderContentType) =>
    /\ pc = "done"
    /\ ~res.ok
    /\ res.err = "WrongLayer"

\* C9: a decode of a proper prefix of an encoded PNam or PLoc packet fails:
\* with UnexpectedEof when the prefix ends in a header field or in the port,
\* with UnterminatedString when it ends in a string.
C9_Truncation ==
  (Finished /\ wire = "cut" /\ msg.pinf_header.citp_header.magic = Magic
     /\ (OwnRead \/ via = "Header")) =>
    /\ ~res.ok
    /\ res.err = IF Len(buf) < 24 \/ (IsPLoc(msg.message) /\ Len(buf) < 26)
                   THEN "UnexpectedEof"
                   ELSE "UnterminatedString"

C9_Witness ==
  /\ pc = "done" /\ wire = "cut" /\ via = "MessagePLoc" /\ OwnRead
  /\ msg.pinf_header.citp_header.magic = Magic
  /\ Len(buf) = Len(sent) - 1
  /\ Len(msg.message.state) = 2
  /\ res.err = "UnterminatedString"

\* C10 as stated: every packet decode accepts has a total_size equal to the
\* bytes of the buffer, all of which the decode consumed.
C10_Original ==
  (Finished /\ via = "MessagePLoc" /\ res.ok) =>
    /\ res.val.pinf_header.citp_header.total_size = Len(buf)
    /\ res.rest = <<>>

\* C10 amended: the bytes consumed by a decode that accepts are the 24 header
\* bytes plus the size_bytes of the decoded payload, and the decoded
\* total_size is the number at offset 8; total_size is compared with neither
\* the bytes consumed nor the bytes of the buffer.
C10_Consumed ==
  (Finished /\ via = "MessagePLoc" /\ res.ok) =>
    /\ Len(buf) - Len(res.rest) = 24 + PLocSize(res.val.message)
    /\ res.rest = Drop(buf, 24 + PLocSize(res.val.message))
    /\ res.val.pinf_header.citp_header.total_size = ReadU32(SubSeq(buf, 9, 12)).val

C10_Witness ==
  /\ pc = "done" /\ via = "MessagePLoc" /\ res.ok
  /\ wire = "padded" /\ res.rest # <<>>
  /\ res.val.pinf_header.citp_header.total_size # Len(buf)
  /\ Len(buf) - Len(res.rest) = 24 + PLocSize(res.val.message)

====
